---------------------------- MODULE Spec2Model ----------------------------
(***************************************************************************)
(* Model of the evaluation pipeline of anomaly_detection_by_diffusion:     *)
(*   evaluations/metrics.py  (dice_coeff, region_specific_metrics, AUROC,  *)
(*                            remove_noise, nonzero_masking, mask_fn,      *)
(*                            BratsEvaluator)                              *)
(*   evaluations/evaluate.py (evaluate_image.mask_fn)                      *)
(*   scripts/decoupled_diffusion_anomaly_detection.py (main)               *)
(*                                                                         *)
(* Arrays are sequences: a batch is a sequence of images, an image is a    *)
(* sequence of rows, a row a sequence of numbers.  Real numbers are exact: *)
(* scores are integers over a stated denominator, ratios are reduced       *)
(* fractions <<n, d>>, and the Dice ratio, whose epsilon is 1e-6, is a      *)
(* fraction of naturals written in base 1/epsilon.  Floating-point         *)
(* rounding is not modelled.                                               *)
(***************************************************************************)
EXTENDS Integers, Sequences, FiniteSets, TLC

VARIABLES
    \* ---- one call of a metric function (metrics.py:12-85) ----
    targets,        \* the `targets` argument: a batch of label maps / binary maps
    images,         \* the `images` argument: a batch of predictions
    region_type,    \* the `region_type` argument of region_specific_metrics
    func,           \* the `func` argument of region_specific_metrics
    threshold,      \* the `threshold` argument of AUROC
    dtype,          \* the dtype np.dot works in: np.result_type(images, targets)
    masks,          \* the local `masks` of region_specific_metrics (None before it is bound)
    func_calls,     \* the calls made to `func`, in order
    result,         \* what the call returned or raised (None while it runs)
    \* ---- the Threshold Selector, mask_fn (metrics.py:244-253) ----
    pred,           \* the `pred` argument: a score map
    mask,           \* the `mask` argument: the foreground mask
    cv2_on_empty,   \* what this build of cv2.threshold does with an empty array
    mask_fn_out,    \* what the successive calls of mask_fn returned or raised
    \* ---- BratsEvaluator (metrics.py:128-232) ----
    data_folder,    \* the content of each file of the folder, by file name
    data_files,     \* self.data_files: the names of the .npy files
    metrics,        \* self.metrics: the mask_fn bound in DICE_WT, the threshold bound in AUROC_WT
    self_mask_fn,   \* self.mask_fn
    method,         \* the method the caller runs: evaluate_images or finding_threshold
    store_data,     \* the store_data argument of evaluate_images
    file_idx,       \* how many files the loop has taken
    metrics_imgs,   \* the local metrics_imgs: one list per metric
    csv_rows,       \* the rows written to metrics.csv after its header
    max_min_dict,   \* the local max_min_dict of finding_threshold
    frame,          \* the locals of the latest iteration: file_name, pred, image, metrics_img
    raised,         \* the exception that left the method (None if none)
    ret,            \* what the method returned (None before it returns)
    \* ---- the inference driver, main (decoupled_diffusion_anomaly_detection.py:25-139) ----
    world_size,     \* dist.get_world_size(): the number of workers, ranks 0..world_size-1
    num_batches,    \* the batches the data loader of each worker yields
    wpc,            \* the position of each worker
    entered,        \* how many all_gather calls each worker has entered
    all_images,     \* the local all_images of each worker
    saved,          \* the samples written as samples_{idx}.npy, in order
    at_barrier,     \* the workers that have called dist.barrier()
    pc              \* position of the sequential program

call_vars == <<targets, images, region_type, func, threshold, dtype, masks, func_calls, result>>
otsu_vars == <<pred, mask, cv2_on_empty, mask_fn_out>>
batch_vars == <<data_folder, data_files, metrics, self_mask_fn, method, store_data, file_idx,
                metrics_imgs, csv_rows, max_min_dict, frame, raised, ret>>
driver_vars == <<world_size, num_batches, wpc, entered, all_images, saved, at_barrier>>
vars == <<call_vars, otsu_vars, batch_vars, driver_vars, pc>>

None == "None"

-----------------------------------------------------------------------------
(* Bounds of the model *)

MaskMaxPixels == 4  \* label maps of region_specific_metrics have at most this many pixels
OtsuMaxPixels == 4  \* score maps given to mask_fn have at most this many pixels
MaxWorkers == 3     \* the driver runs on 1..MaxWorkers workers
MaxBatches == 2     \* the data loader of a worker yields 1..MaxBatches batches
NonzeroMaxPixels == 2   \* nonzero_masking runs on images of 1..NonzeroMaxPixels pixels
MaxChannels == 5    \* with 1..MaxChannels channels
FindingMaxFiles == 2    \* finding_threshold runs over 1..FindingMaxFiles files
FindingMaxPixels == 4   \* of 1..FindingMaxPixels pixels each
FolderMaxCells == 4 \* a folder holds N files of P pixels each, N * P at most this
MetricMaxCells == 4 \* a batch given to dice_coeff / AUROC has N samples of P pixels, N * P at most this

-----------------------------------------------------------------------------
(* Array helpers (numpy reshape(-1) / flatten, sum, dot, shape) *)

RECURSIVE SeqSum(_)
SeqSum(s) == IF s = <<>> THEN 0 ELSE Head(s) + SeqSum(Tail(s))

RECURSIVE Flatten(_)
Flatten(img) == IF img = <<>> THEN <<>> ELSE Head(img) \o Flatten(Tail(img))

Shape(img) == <<Len(img), IF img = <<>> THEN 0 ELSE Len(img[1])>>

BatchShape(batch) == [i \in 1..Len(batch) |-> Shape(batch[i])]

Images(h, w, vals) == [1..h -> [1..w -> vals]]

\* the shapes (H, W) of at most maxp pixels
Shapes(maxp) == {hw \in (1..maxp) \X (1..maxp) : hw[1] * hw[2] <= maxp}

Full(h, w, v) == [r \in 1..h |-> [c \in 1..w |-> v]]

-----------------------------------------------------------------------------
(* Region Masker: region_specific_metrics (metrics.py:39-54) *)

Labels == {0, 1, 2, 4}

RegionTypes == {"ET", "TC", "WT"}

\* numpy `targets == c`: a bool, whose numeric value is 0 or 1
Eq(t, c) == IF t = c THEN 1 ELSE 0

\* numpy `+` on two bool arrays is the logical or
BoolAdd(a, b) == IF a + b > 0 THEN 1 ELSE 0

Gt(a, b) == IF a > b THEN 1 ELSE 0

\* a variant that lets every region_type through
RegionTypeAllowedNoAssert(rt) == TRUE
\* the assert of line 46
RegionTypeAllowed(rt) == rt \in RegionTypes

\* a variant whose WT branch leaves out class 2
RegionPixelTCasWT(t, rt) ==
    IF rt = "ET" THEN Eq(t, 1) * 1
    ELSE IF rt = "TC" THEN Gt(BoolAdd(Eq(t, 1), Eq(t, 4)), 0) * 1
    ELSE Gt(BoolAdd(Eq(t, 1), Eq(t, 4)), 0 * 1)
\* lines 47-52, one pixel.  Line 52 reads `... > 0 * 1`, that is `... > 0`:
\* the WT mask stays a bool array (numeric values 0 and 1).
RegionPixel(t, rt) ==
    IF rt = "ET" THEN Eq(t, 1) * 1
    ELSE IF rt = "TC" THEN Gt(BoolAdd(Eq(t, 1), Eq(t, 4)), 0) * 1
    ELSE Gt(BoolAdd(BoolAdd(Eq(t, 1), Eq(t, 2)), Eq(t, 4)), 0 * 1)

RegionMask(tgts, rt) ==
    [n \in 1..Len(tgts) |->
        [r \in 1..Len(tgts[n]) |->
            [c \in 1..Len(tgts[n][r]) |-> RegionPixel(tgts[n][r][c], rt)]]]

RegionMaskDtype(rt) == IF rt \in {"ET", "TC"} THEN "int64" ELSE "bool"

-----------------------------------------------------------------------------
(* Exact numbers *)

Abs(x) == IF x < 0 THEN -x ELSE x

RECURSIVE Gcd(_, _)
Gcd(a, b) == IF b = 0 THEN a ELSE Gcd(b, a % b)

\* a reduced fraction <<n, d>>, d > 0
Frac(n, d) == LET g == Gcd(Abs(n), d) IN <<n \div g, d \div g>>

FracAdd(x, y) == Frac(x[1] * y[2] + y[1] * x[2], x[2] * y[2])

FracDivInt(x, k) == Frac(x[1], x[2] * k)

FracLess(x, y) == x[1] * y[2] < y[1] * x[2]

\* epsilon=1e-6 of dice_coeff (metrics.py:16), as 1/EpsilonInv
EpsilonInv == 1000000

\* Naturals in base EpsilonInv, least significant digit first, no leading zero
\* digit (zero is <<>>): the natural 2*dot*EpsilonInv + 1 is <<1, 2*dot>>.
RECURSIVE BigCarry(_, _)
BigCarry(p, c) ==
    IF p = <<>>
    THEN IF c = 0 THEN <<>> ELSE <<c % EpsilonInv>> \o BigCarry(<<>>, c \div EpsilonInv)
    ELSE LET v == Head(p) + c
         IN  <<v % EpsilonInv>> \o BigCarry(Tail(p), v \div EpsilonInv)

RECURSIVE BigTrim(_)
BigTrim(p) ==
    IF p = <<>> THEN <<>>
    ELSE IF p[Len(p)] = 0 THEN BigTrim(SubSeq(p, 1, Len(p) - 1)) ELSE p

BigNat(p) == BigTrim(BigCarry(p, 0))

Digit(p, i) == IF i \in 1..Len(p) THEN p[i] ELSE 0

Max(a, b) == IF a > b THEN a ELSE b

BigAdd(p, q) == BigNat([i \in 1..Max(Len(p), Len(q)) |-> Digit(p, i) + Digit(q, i)])

RECURSIVE ConvSum(_, _, _, _)
ConvSum(p, q, k, i) ==
    IF i > Len(p) THEN 0 ELSE p[i] * Digit(q, k + 1 - i) + ConvSum(p, q, k, i + 1)

BigMul(p, q) ==
    IF p = <<>> \/ q = <<>> THEN <<>>
    ELSE BigNat([k \in 1..(Len(p) + Len(q) - 1) |-> ConvSum(p, q, k, 1)])

RECURSIVE BigLessFrom(_, _, _)
BigLessFrom(p, q, i) ==
    IF i = 0 THEN FALSE
    ELSE IF p[i] # q[i] THEN p[i] < q[i] ELSE BigLessFrom(p, q, i - 1)

BigLess(p, q) ==
    IF Len(p) # Len(q) THEN Len(p) < Len(q) ELSE BigLessFrom(p, q, Len(p))

\* ratios of such naturals, <<num, den>>, not reduced
BigRatAdd(x, y) == <<BigAdd(BigMul(x[1], y[2]), BigMul(y[1], x[2])), BigMul(x[2], y[2])>>

BigRatDivInt(x, k) == <<x[1], BigMul(x[2], BigNat(<<k>>))>>

BigRatEq(x, y) == BigMul(x[1], y[2]) = BigMul(y[1], x[2])

BigRatLess(x, y) == BigLess(BigMul(x[1], y[2]), BigMul(y[1], x[2]))

BigRatZero == <<<<>>, <<1>>>>

BigRatOne == <<<<1>>, <<1>>>>

-----------------------------------------------------------------------------
(* Threshold Selector: mask_fn of finding_threshold (metrics.py:244-253),   *)
(* the same code as mask_fn of evaluate_image (evaluate.py:57-66), and      *)
(* mask_fn of using_thresh (metrics.py:282-283)                             *)

\* A score in [0,1] is the integer k standing for k / ScoreDen.  ScoreDen is
\* 4 * 255: the score of the evaluator is the mean over 4 channels of
\* |generated - img| / 255 (metrics.py:159-162).
ScoreDen == 1020

\* the score of a binarized value, (pred > thresh) * 1.0
ToScore(img) == [r \in 1..Len(img) |-> [c \in 1..Len(img[r]) |-> img[r][c] * ScoreDen]]

\* pred[np.where(mask > 0)].reshape(1, -1): the masked pixels, in order
RECURSIVE Select(_, _)
Select(p, m) ==
    IF p = <<>> THEN <<>>
    ELSE (IF Head(m) > 0 THEN <<Head(p)>> ELSE <<>>) \o Select(Tail(p), Tail(m))

\* (masked_pred * 255.0).astype(np.uint8): truncation to 8 bits
ToUint8(k) == ((k * 255) \div ScoreDen) % 256

Range(s) == {s[i] : i \in 1..Len(s)}

\* OpenCV's Otsu search (cv2.threshold(.., cv2.THRESH_OTSU), line 247) on 8-bit
\* data: for i = 0..255 with both classes {v <= i} and {v > i} non-empty, the
\* between-class variance is sigma(i) = q1*q2*(mu1-mu2)^2
\*                                    = (n*S1 - n1*S)^2 / (n^2 * n1 * n2),
\* n1, S1 the count and sum of the values <= i; the result is the first i of
\* the largest sigma, and 0 when no i splits the data.  sigma only changes at
\* values of the data, so the first maximum is at one of them.
OtsuN1(data, i) == Cardinality({k \in 1..Len(data) : data[k] <= i})

OtsuS1(data, i) == SeqSum([k \in 1..Len(data) |-> IF data[k] <= i THEN data[k] ELSE 0])

OtsuSplits(data, i) == OtsuN1(data, i) > 0 /\ OtsuN1(data, i) < Len(data)

\* sigma(i) * n^2 as a fraction <<numerator, denominator>> of naturals
OtsuSigma(data, i) ==
    LET n == Len(data)
        n1 == OtsuN1(data, i)
        a == n * OtsuS1(data, i) - n1 * SeqSum(data)
    IN  <<BigNat(<<a * a>>), BigNat(<<n1 * (n - n1)>>)>>

SetMin(S) == CHOOSE x \in S : \A y \in S : x <= y

\* the first i of the largest sigma among the splitting values cand
OtsuFirstMax(data, cand) ==
    IF cand = {} THEN 0
    ELSE SetMin({i \in cand :
                    \A j \in cand : ~BigRatLess(OtsuSigma(data, i), OtsuSigma(data, j))})

OtsuThreshold(data) == OtsuFirstMax(data, {i \in Range(data) : OtsuSplits(data, i)})

\* What cv2.threshold does with an empty array is the library build's choice:
\* it raises cv2.error, or its search finds no split and returns 0.
Cv2EmptyOutcomes == {"cv2.error", "zero"}

\* a variant binarizing with pred >= thresh
BinarizeGtOrEqual(p, t) ==
    [r \in 1..Len(p) |-> [c \in 1..Len(p[r]) |-> IF p[r][c] * 255 >= t * ScoreDen THEN 1 ELSE 0]]
\* pred > thresh, thresh = t / 255 (lines 248-249): k / ScoreDen > t / 255
BinarizeGt(p, t) ==
    [r \in 1..Len(p) |-> [c \in 1..Len(p[r]) |-> IF p[r][c] * 255 > t * ScoreDen THEN 1 ELSE 0]]

\* mask_fn(pred, mask, return_thresh=True) of finding_threshold: the threshold
\* as the fraction t / 255, and the binarized map
MaskFnResult(p, t) == [kind |-> "value", thresh |-> Frac(t, 255), pred |-> BinarizeGt(p, t)]

MaskFnOnData(p, data, onEmpty) ==
    IF data = <<>> /\ onEmpty = "cv2.error" THEN [kind |-> "cv2.error"]
    ELSE MaskFnResult(p, OtsuThreshold(data))

MaskedUint8(masked_pred) == [k \in 1..Len(masked_pred) |-> ToUint8(masked_pred[k])]

OtsuMaskFn(p, m, onEmpty) ==
    MaskFnOnData(p, MaskedUint8(Select(Flatten(p), Flatten(m))), onEmpty)

\* mask_fn(pred) of using_thresh: (pred >= metrics_threshs['threshold']) * 1.0,
\* the threshold a fraction <<n, d>>
BinarizeGe(p, th) ==
    [r \in 1..Len(p) |-> [c \in 1..Len(p[r]) |-> IF p[r][c] * th[2] >= th[1] * ScoreDen THEN 1 ELSE 0]]

\* The mask_fn values handed to dice_coeff:
\*   [kind |-> "identity"]                lambda x: x (line 15)
\*   [kind |-> "otsu", mask, onEmpty]     partial(self.mask_fn, mask=mask.squeeze(0)) (line 206)
\*   [kind |-> "ge", thresh]              mask_fn of using_thresh (line 282)
\*   [kind |-> "unbound"]                 mask_fn of finding_threshold with no mask
\*                                        bound (line 255): calling it is a TypeError
\* The result is the image, or the error raised.
\* return_thresh=False: the binarized map alone
DropThresh(r) == IF r.kind = "value" THEN [kind |-> "value", pred |-> r.pred] ELSE r

ApplyMaskFn(mf, image) ==
    IF mf.kind = "unbound" THEN [kind |-> "TypeError"]
    ELSE IF mf.kind = "identity" THEN [kind |-> "value", pred |-> image]
    ELSE IF mf.kind = "ge" THEN [kind |-> "value", pred |-> BinarizeGe(image, mf.thresh)]
    ELSE DropThresh(OtsuMaskFn(image, mf.mask, mf.onEmpty))

IdentityMaskFn == [kind |-> "identity"]

-----------------------------------------------------------------------------
(* Metric functions: dice_coeff (metrics.py:12-37), AUROC (metrics.py:56-85) *)

RECURSIVE Dot(_, _)
Dot(a, b) == IF a = <<>> THEN 0 ELSE Head(a) * Head(b) + Dot(Tail(a), Tail(b))

\* The dtypes of a numpy array of zeros and ones.  np.dot returns a scalar of
\* the arrays' dtype and computes in it: for bool arrays it is the logical
\* OR of the ANDs (True when some product is 1), for uint8 arrays the sum
\* modulo 2^8; `2 * dot` stays in uint8 for a uint8 scalar and is an int for a
\* bool.  ndarray.sum() widens integers and bools to 64 bits.
Dtypes == {"float64", "int64", "uint8", "bool"}

Float64 == "float64"

DotFn(dt, a, b) ==
    IF dt = "bool" THEN (IF Dot(a, b) > 0 THEN 1 ELSE 0)
    ELSE IF dt = "uint8" THEN Dot(a, b) % 256
    ELSE Dot(a, b)

TwoTimes(dt, dot) == IF dt = "uint8" THEN (2 * dot) % 256 ELSE 2 * dot

\* lines 32-34 for one sample, `image` being mask_fn(image):
\* (2 * dot + epsilon) / (sum + epsilon), both sides times 1/epsilon
DiceTerm(image, target, dt) ==
    LET dot == DotFn(dt, Flatten(image), Flatten(target))
        sum == SeqSum(Flatten(image)) + SeqSum(Flatten(target))
    IN  <<BigNat(<<1, TwoTimes(dt, dot)>>), BigNat(<<1, sum>>)>>

AssertionError(msg) == [kind |-> "AssertionError", msg |-> msg]

Value(v) == [kind |-> "value", value |-> v]

\* the loop of lines 28-34 up to sample i: the running `dice` as a Value, or
\* the error mask_fn raised
\* one pass of the loop body: `prev` the running dice, `image` mask_fn(image)
DiceStep(prev, image, target, dt) ==
    IF prev.kind # "value" THEN prev
    ELSE IF image.kind # "value" THEN image
    ELSE Value(BigRatAdd(prev.value, DiceTerm(image.pred, target, dt)))

RECURSIVE DiceLoop(_, _, _, _, _)
DiceLoop(tgts, imgs, mf, dt, i) ==
    IF i = 0 THEN Value(BigRatZero)
    ELSE DiceStep(DiceLoop(tgts, imgs, mf, dt, i - 1), ApplyMaskFn(mf, imgs[i]), tgts[i], dt)

\* dice / images.shape[0] (line 36)
DiceAverage(dice, n) ==
    IF dice.kind # "value" THEN dice ELSE Value(BigRatDivInt(dice.value, n))

ShapeMessage == "the input and target images should share the same shape and type"

\* dice_coeff: the assert of lines 26-27, the loop, dice / images.shape[0];
\* `dt` is the dtype np.dot works in
DiceCoeff(tgts, imgs, mf, dt) ==
    IF BatchShape(imgs) # BatchShape(tgts) THEN AssertionError(ShapeMessage)
    ELSE DiceAverage(DiceLoop(tgts, imgs, mf, dt, Len(imgs)), Len(imgs))

\* sklearn's roc_auc_score(target, image) of line 83 for a binary target:
\* the share of (positive, negative) pixel pairs the score orders rightly,
\* a tie counting one half; it raises ValueError when the target holds
\* one class only.
PairScore(sp, sn) == IF sp > sn THEN 2 ELSE IF sp = sn THEN 1 ELSE 0

RECURSIVE PairSum(_, _, _, _)
PairSum(t, s, i, j) ==
    IF i > Len(t) THEN 0
    ELSE IF j > Len(t) THEN PairSum(t, s, i + 1, 1)
    ELSE (IF t[i] = 1 /\ t[j] = 0 THEN PairScore(s[i], s[j]) ELSE 0)
         + PairSum(t, s, i, j + 1)

RocAucDefined(target) == LET n == SeqSum(target) IN n > 0 /\ n < Len(target)

RocAucScore(target, image) ==
    LET npos == SeqSum(target)
    IN  Frac(PairSum(target, image, 1, 1), 2 * npos * (Len(target) - npos))

\* the loop of lines 72-83 up to sample i: the running `score` as a Value, or
\* the ValueError of roc_auc_score
\* one pass of the loop body (lines 78-83): `prev` the running score
AurocStep(prev, target, image, thr) ==
    IF prev.kind # "value" THEN prev
    ELSE IF SeqSum(target) <= thr THEN Value(<<-1, 1>>)
    ELSE IF ~RocAucDefined(target) THEN [kind |-> "ValueError"]
    ELSE Value(FracAdd(prev.value, RocAucScore(target, image)))

RECURSIVE AurocLoop(_, _, _, _)
AurocLoop(tgts, imgs, thr, i) ==
    IF i = 0 THEN Value(<<0, 1>>)
    ELSE AurocStep(AurocLoop(tgts, imgs, thr, i - 1), Flatten(tgts[i]), Flatten(imgs[i]), thr)

\* score / images.shape[0] (line 85)
AurocAverage(score, n) ==
    IF score.kind # "value" THEN score ELSE Value(FracDivInt(score.value, n))

\* AUROC: the assert of lines 69-70, the loop, score / images.shape[0]
AUROC(tgts, imgs, thr) ==
    IF BatchShape(imgs) # BatchShape(tgts) THEN AssertionError(ShapeMessage)
    ELSE AurocAverage(AurocLoop(tgts, imgs, thr, Len(imgs)), Len(imgs))

\* threshold=200 of AUROC (metrics.py:59)
AurocDefaultThreshold == 200

-----------------------------------------------------------------------------
(* Preprocessors: remove_noise (metrics.py:124-126), nonzero_masking        *)
(* (metrics.py:90-122), and the score map of the evaluator (lines 159-162)  *)

\* the k-th smallest (k from 0) of a sequence of numbers
OrderStat(s, k) ==
    CHOOSE v \in Range(s) :
        /\ Cardinality({i \in 1..Len(s) : s[i] < v}) <= k
        /\ Cardinality({i \in 1..Len(s) : s[i] <= v}) > k

\* 100 * np.percentile(s, q), linear interpolation between the order
\* statistics around position q/100 * (n - 1)
Percentile100(s, q) ==
    LET pos == q * (Len(s) - 1)
        lo == pos \div 100
        hi == IF lo + 1 < Len(s) THEN lo + 1 ELSE lo
    IN  100 * OrderStat(s, lo) + (pos % 100) * (OrderStat(s, hi) - OrderStat(s, lo))

\* remove_noise: image * ((image >= p1) * (image <= p99))
RemoveNoise(image) ==
    LET flat == Flatten(image)
        p1 == Percentile100(flat, 1)
        p99 == Percentile100(flat, 99)
    IN  [r \in 1..Len(image) |-> [c \in 1..Len(image[r]) |->
            IF 100 * image[r][c] >= p1 /\ 100 * image[r][c] <= p99
            THEN image[r][c] ELSE 0]]

\* the `== 4` of nonzero_masking (metrics.py:115)
NonzeroChannels == 4

\* nonzero_masking(images, targets, return_mask=True) on one sample: images
\* holds a sequence of channel values per pixel, targets a number per pixel
NonzeroMask(imgs) ==
    LET lo == SetMin(UNION {Range(px) : px \in Range(Flatten(imgs))})
    IN  [r \in 1..Len(imgs) |-> [c \in 1..Len(imgs[r]) |->
            IF Cardinality({ch \in 1..Len(imgs[r][c]) : imgs[r][c][ch] > lo}) = NonzeroChannels
            THEN 1 ELSE 0]]

NonzeroMasking(imgs, tgts) ==
    LET m == NonzeroMask(imgs)
        tmin == SetMin(Range(Flatten(tgts)))
    IN  [targets |-> [r \in 1..Len(tgts) |-> [c \in 1..Len(tgts[r]) |->
                         tgts[r][c] * m[r][c] + tmin * (1 - m[r][c])]],
         mask |-> m]

\* A sample record data[0] is an image of pixels <<i1, i2, i3, i4, seg, g1, ..>>
\* of 8-bit values: data[..., :4], data[..., 4], data[..., 5:].
SampleImg(data) == [r \in 1..Len(data) |-> [c \in 1..Len(data[r]) |-> SubSeq(data[r][c], 1, 4)]]

SampleSeg(data) == [r \in 1..Len(data) |-> [c \in 1..Len(data[r]) |-> data[r][c][5]]]

SampleGenerated(data) ==
    [r \in 1..Len(data) |-> [c \in 1..Len(data[r]) |->
        SubSeq(data[r][c], 6, Len(data[r][c]))]]

\* np.mean(np.sqrt((generated - img) ** 2), axis=3) with both over 255: the
\* sum of the 4 channel differences, over ScoreDen = 4 * 255
ScoreMap(data) ==
    LET img == SampleImg(data)
        generated == SampleGenerated(data)
    IN  [r \in 1..Len(data) |-> [c \in 1..Len(data[r]) |->
            SeqSum([ch \in 1..4 |-> Abs(generated[r][c][ch] - img[r][c][ch])])]]

-----------------------------------------------------------------------------
(* One call of region_specific_metrics(targets, images, func, region_type,  *)
(* **func_kwargs) (metrics.py:39-54)                                        *)

RegionTypeMessage == "region type should be one of ET, TC, WT"

\* func(masks, images, **func_kwargs) of line 54; images are the float score
\* maps of the evaluator, so np.dot works in float64 whatever the dtype of masks
CallFunc(f, msks, imgs, mf, thr) ==
    IF f = "dice_coeff" THEN DiceCoeff(msks, imgs, mf, Float64)
    ELSE AUROC(msks, imgs, thr)

\* what region_specific_metrics returns or raises
RegionSpecificMetricsResult(tgts, imgs, f, rt, mf, thr) ==
    IF ~RegionTypeAllowed(rt) THEN AssertionError(RegionTypeMessage)
    ELSE CallFunc(f, RegionMask(tgts, rt), imgs, mf, thr)

DriverIdle ==
    /\ world_size = 0 /\ num_batches = 0 /\ wpc = <<>> /\ entered = <<>>
    /\ all_images = <<>> /\ saved = <<>> /\ at_barrier = {}

BatchIdle ==
    /\ data_folder = None /\ data_files = None /\ metrics = None /\ self_mask_fn = None
    /\ method = None /\ store_data = None /\ file_idx = 0 /\ metrics_imgs = None
    /\ csv_rows = None /\ max_min_dict = None /\ frame = None /\ raised = None /\ ret = None

OtsuIdle == pred = None /\ mask = None /\ cv2_on_empty = None /\ mask_fn_out = <<>>

CallIdle ==
    /\ targets = None /\ images = None /\ region_type = None /\ func = None
    /\ threshold = None /\ dtype = None /\ masks = None /\ func_calls = <<>> /\ result = None

InitRegion ==
    /\ \E hw \in Shapes(MaskMaxPixels) :
          /\ \E lm \in Images(hw[1], hw[2], Labels) : targets = <<lm>>
          /\ \E v \in {0, 1} : images = <<Full(hw[1], hw[2], v)>>
    /\ region_type \in RegionTypes \cup {"NCR"}
    /\ func \in {"dice_coeff", "AUROC"}
    /\ threshold \in {0, AurocDefaultThreshold}
    /\ dtype = "float64"
    /\ masks = None
    /\ func_calls = <<>>
    /\ result = None
    /\ OtsuIdle
    /\ BatchIdle
    /\ DriverIdle
    /\ pc = "start"

RegionSpecificMetrics ==
    /\ pc = "start"
    /\ IF ~RegionTypeAllowed(region_type)
       THEN /\ result' = AssertionError(RegionTypeMessage)
            /\ pc' = "raised"
            /\ UNCHANGED <<masks, func_calls>>
       ELSE /\ masks' = RegionMask(targets, region_type)
            /\ func_calls' = Append(func_calls, <<func, masks', images>>)
            /\ result' = RegionSpecificMetricsResult(targets, images, func, region_type,
                                                     IdentityMaskFn, threshold)
            /\ pc' = "done"
    /\ UNCHANGED <<targets, images, region_type, func, threshold, dtype, otsu_vars, batch_vars, driver_vars>>

NextRegion == RegionSpecificMetrics

SpecRegion == InitRegion /\ [][NextRegion]_vars

\* the classes a region groups (ET = 1; TC = 1, 4; WT = 1, 2, 4)
RegionClasses(rt) ==
    IF rt = "ET" THEN {1} ELSE IF rt = "TC" THEN {1, 4} ELSE {1, 2, 4}

ExampleLabelMap == << <<1, 2>>, <<4, 0>> >>

ExampleMask(rt) ==
    IF rt = "WT" THEN << <<1, 1>>, <<1, 0>> >>
    ELSE IF rt = "TC" THEN << <<1, 0>>, <<1, 0>> >>
    ELSE << <<1, 0>>, <<0, 0>> >>

\* C1: once region_specific_metrics has derived the mask of an allowed region,
\* the mask has the shape of the label map, every value is 0 or 1, a pixel is 1
\* exactly when its label is in the region's classes, and the label map
\* [[1,2],[4,0]] gives the three masks of the scenario.
C1_RegionMask ==
    (pc = "done") =>
        /\ BatchShape(masks) = BatchShape(targets)
        /\ \A n \in 1..Len(targets) : \A r \in 1..Len(targets[n]) :
              \A c \in 1..Len(targets[n][r]) :
                 /\ masks[n][r][c] \in {0, 1}
                 /\ masks[n][r][c] = 1 <=> targets[n][r][c] \in RegionClasses(region_type)
        /\ (targets = <<ExampleLabelMap>>) => masks = <<ExampleMask(region_type)>>

C1_Witness ==
    /\ pc = "done" /\ region_type = "WT"
    /\ targets = <<ExampleLabelMap>> /\ masks = <<ExampleMask("WT")>>

\* C10: a call with a region_type outside {ET, TC, WT} ends in the assertion
\* error whose message names the allowed set; no mask was derived, func was
\* never called and nothing was returned.
C10_InvalidRegion ==
    (region_type \notin RegionTypes /\ pc # "start") =>
        /\ pc = "raised"
        /\ result = AssertionError(RegionTypeMessage)
        /\ masks = None
        /\ func_calls = <<>>

C10_Witness == pc = "raised" /\ region_type = "NCR" /\ result.kind = "AssertionError"

-----------------------------------------------------------------------------
(* One call of dice_coeff(targets, images) or AUROC(targets, images,        *)
(* threshold) on a batch of N samples (metrics.py:12-37, 56-85)             *)

\* the batches of n samples of shape 1 x p over vals
Batches(n, p, vals) == [1..n -> Images(1, p, vals)]

InitMetrics ==
    /\ \E np \in Shapes(MetricMaxCells) :
          /\ targets \in Batches(np[1], np[2], {0, 1})
          /\ images \in Batches(np[1], np[2], {0, 1})
    /\ \/ func = "dice_coeff" /\ threshold = None
       \/ func = "AUROC" /\ threshold \in {0, 1}
    /\ dtype \in Dtypes
    /\ region_type = None
    /\ masks = None
    /\ func_calls = <<>>
    /\ result = None
    /\ OtsuIdle
    /\ BatchIdle
    /\ DriverIdle
    /\ pc = "start"

CallDiceCoeff ==
    /\ pc = "start"
    /\ func = "dice_coeff"
    /\ result' = DiceCoeff(targets, images, IdentityMaskFn, dtype)
    /\ pc' = "done"
    /\ UNCHANGED <<targets, images, region_type, func, threshold, dtype, masks, func_calls,
                 otsu_vars, batch_vars, driver_vars>>

CallAUROC ==
    /\ pc = "start"
    /\ func = "AUROC"
    /\ result' = AUROC(targets, images, threshold)
    /\ pc' = "done"
    /\ UNCHANGED <<targets, images, region_type, func, threshold, dtype, masks, func_calls,
                 otsu_vars, batch_vars, driver_vars>>

NextMetrics == CallDiceCoeff \/ CallAUROC

SpecMetrics == InitMetrics /\ [][NextMetrics]_vars

PositivePixels(target) == SeqSum(Flatten(target))

\* C2: AUROC returns exactly -1 whenever some sample of the batch has a
\* positive-pixel count <= threshold (whatever the other samples are and
\* wherever the sample stands in the batch).
C2_SentinelAnyBatch ==
    (pc = "done" /\ func = "AUROC"
        /\ \E i \in 1..Len(targets) : PositivePixels(targets[i]) <= threshold)
    => result = Value(<<-1, 1>>)

\* C2 on batches of one sample, where the sentinel does come back
C2_SentinelSingleSample ==
    (pc = "done" /\ func = "AUROC" /\ Len(targets) = 1
        /\ PositivePixels(targets[1]) <= threshold)
    => result = Value(<<-1, 1>>)

\* C9: dice_coeff with the identity mask_fn on a batch whose prediction equals
\* the target returns 1: for every sample 2*dot + epsilon equals
\* sum(pred) + sum(target) + epsilon, and the batch average is 1.
C9_DiceOfEqualMasks ==
    (pc = "done" /\ func = "dice_coeff" /\ images = targets) =>
        /\ result.kind = "value"
        /\ BigRatEq(result.value, BigRatOne)
        /\ \A i \in 1..Len(targets) :
              LET term == DiceTerm(images[i], targets[i], dtype) IN term[1] = term[2]

\* the same on arrays of a dtype np.dot adds up in without loss (float64,
\* int64), where it does hold
C9_DiceOfEqualWideMasks ==
    (pc = "done" /\ func = "dice_coeff" /\ images = targets
        /\ dtype \in {"float64", "int64"}) =>
        /\ result.kind = "value"
        /\ BigRatEq(result.value, BigRatOne)

-----------------------------------------------------------------------------
(* The Threshold Selector called on a score map, and called again on its    *)
(* own binarized output with the same mask (metrics.py:244-253)             *)

\* 0, 0.1, 0.9 and 1.0 over ScoreDen
ScoreLevels == {0, 102, 918, ScoreDen}

InitOtsu ==
    /\ \E hw \in Shapes(OtsuMaxPixels) :
          /\ pred \in Images(hw[1], hw[2], ScoreLevels)
          /\ mask \in Images(hw[1], hw[2], {0, 1})
    /\ cv2_on_empty \in Cv2EmptyOutcomes
    /\ mask_fn_out = <<>>
    /\ CallIdle
    /\ BatchIdle
    /\ DriverIdle
    /\ pc = "start"

\* thresh, pred = mask_fn(pred, mask, return_thresh=True)
MaskFnFirst ==
    /\ pc = "start"
    /\ LET out == OtsuMaskFn(pred, mask, cv2_on_empty)
       IN  /\ mask_fn_out' = <<out>>
           /\ pc' = IF out.kind = "value" THEN "once" ELSE "raised"
    /\ UNCHANGED <<call_vars, batch_vars, driver_vars, pred, mask, cv2_on_empty>>

\* mask_fn(pred, mask, return_thresh=True) on the binarized map of the first call
MaskFnAgain ==
    /\ pc = "once"
    /\ LET out == OtsuMaskFn(ToScore(mask_fn_out[1].pred), mask, cv2_on_empty)
       IN  /\ mask_fn_out' = Append(mask_fn_out, out)
           /\ pc' = IF out.kind = "value" THEN "twice" ELSE "raised"
    /\ UNCHANGED <<call_vars, batch_vars, driver_vars, pred, mask, cv2_on_empty>>

NextOtsu == MaskFnFirst \/ MaskFnAgain

SpecOtsu == InitOtsu /\ [][NextOtsu]_vars

\* [[0.9, 0.9], [0.1, 0.1]]
ScenarioScoreMap == << <<918, 918>>, <<102, 102>> >>

\* C3: on the score map [[0.9,0.9],[0.1,0.1]] with an all-ones mask, mask_fn
\* returns a threshold strictly between 0.1 and 0.9 and the binarized map
\* [[1,1],[0,0]].
C3_Scenario ==
    (pc = "once" /\ pred = ScenarioScoreMap /\ mask = Full(2, 2, 1)) =>
        /\ FracLess(<<1, 10>>, mask_fn_out[1].thresh)
        /\ FracLess(mask_fn_out[1].thresh, <<9, 10>>)
        /\ mask_fn_out[1].pred = << <<1, 1>>, <<0, 0>> >>

\* what the code returns on the scenario of C3: the 8-bit values are 229 and
\* 25, Otsu's threshold is 25, 25/255 < 0.1, and every pixel is above it
C3_CodeOnScenario ==
    (pc = "once" /\ pred = ScenarioScoreMap /\ mask = Full(2, 2, 1)) =>
        /\ mask_fn_out[1].thresh = Frac(25, 255)
        /\ mask_fn_out[1].pred = Full(2, 2, 1)

\* C4: mask_fn on the binarized output of a first mask_fn call, with the same
\* mask, returns and binarizes to that same output.
C4_Idempotent ==
    (Len(mask_fn_out) = 2) =>
        /\ mask_fn_out[2].kind = "value"
        /\ mask_fn_out[2].pred = mask_fn_out[1].pred

\* the second call has run on a two-valued output whose zeros and ones are
\* both inside the mask
C4_Witness ==
    /\ pc = "twice"
    /\ \E i, j \in 1..Len(Flatten(mask)) :
          /\ Flatten(mask)[i] = 1 /\ Flatten(mask_fn_out[1].pred)[i] = 0
          /\ Flatten(mask)[j] = 1 /\ Flatten(mask_fn_out[1].pred)[j] = 1
    /\ mask_fn_out[2].pred = mask_fn_out[1].pred

-----------------------------------------------------------------------------
(* Batch Evaluator: BratsEvaluator.evaluate_images (metrics.py:141-184) and *)
(* BratsEvaluator.finding_threshold (metrics.py:186-232)                    *)

\* the content of a file: a sample record np.load returns, or none it can return
Sample(data) == [readable |-> TRUE, data |-> data]

Unreadable == [readable |-> FALSE]

\* np.load(file_dir) on a file that cannot be loaded: a missing file raises
\* FileNotFoundError, whose message holds the path; a corrupt file raises
\* ValueError, whose message does not.
LoadErrors(file_name) ==
    {[kind |-> "FileNotFoundError", names |-> {file_name}],
     [kind |-> "ValueError", names |-> {}]}

Raised(e) == [kind |-> "raised", error |-> e]

\* {metric: metric_fn(seg, pred) for metric, metric_fn in self.metrics.items()}
\* (lines 167, 210): DICE_WT then AUROC_WT, both region_specific_metrics
\* partials with region_type="WT"
MetricsOf(dice, auroc) ==
    IF dice.kind # "value" THEN Raised(dice)
    ELSE IF auroc.kind # "value" THEN Raised(auroc)
    ELSE [kind |-> "value", DICE_WT |-> dice.value, AUROC_WT |-> auroc.value]

MetricsImg(seg, p, mtr) ==
    MetricsOf(RegionSpecificMetricsResult(<<seg>>, <<p>>, "dice_coeff", "WT",
                                          mtr.DICE_WT, None),
              RegionSpecificMetricsResult(<<seg>>, <<p>>, "AUROC", "WT",
                                          None, mtr.AUROC_WT))

\* the locals an iteration leaves: pred, the image mask_fn(image) dice_coeff
\* works on, and metrics_img; or the exception raised (`m` is MetricsImg)
IterationOf(m, p, mf, entries) ==
    IF m.kind # "value" THEN m
    ELSE [kind |-> "value", pred |-> p, image |-> ApplyMaskFn(mf, p).pred,
          metrics_img |-> [key \in DOMAIN entries \cup {"DICE_WT", "AUROC_WT"} |->
                              IF key \in DOMAIN entries THEN entries[key] ELSE m[key]]]

\* lines 165-168: pred = nonzero_masking(img, pred), the metrics, file_name
EvaluateImagesOn(seg, p, file_name, mtr) ==
    IterationOf(MetricsImg(seg, p, mtr), p, mtr.DICE_WT, [file_name |-> file_name])

\* lines 159-168 on one loaded sample
EvaluateImagesSample(data, file_name, mtr) ==
    EvaluateImagesOn(SampleSeg(data),
                     NonzeroMasking(SampleImg(data), ScoreMap(data)).targets,
                     file_name, mtr)

\* mask_fn = partial(self.mask_fn, mask=mask.squeeze(0)) (line 206)
BoundMaskFn(m, onEmpty) == [kind |-> "otsu", mask |-> m, onEmpty |-> onEmpty]

\* a variant that binds DICE_WT in the first iteration only
RebindDiceWTOnce(mtr, mf) ==
    IF mtr.DICE_WT.kind = "unbound" THEN [mtr EXCEPT !.DICE_WT = mf] ELSE mtr
\* self.metrics["DICE_WT"] = partial(region_specific_metrics, func=dice_coeff,
\* region_type="WT", mask_fn=mask_fn) (line 208)
RebindDiceWT(mtr, mf) == [mtr EXCEPT !.DICE_WT = mf]

\* lines 210-212 with self.metrics as line 208 left it
FindingThresholdMetrics(th, seg, nm, file_name, mtr) ==
    IterationOf(MetricsImg(seg, nm.targets, mtr), nm.targets, mtr.DICE_WT,
                [file_name |-> file_name, threshold |-> th.thresh])

\* lines 204-212: `th` is self.mask_fn(pred, mask, return_thresh=True), `nm` the
\* pair nonzero_masking returned; DICE_WT is rebound before the metrics run
FindingThresholdWith(th, seg, nm, file_name, mtr, onEmpty) ==
    IF th.kind # "value" THEN Raised(th)
    ELSE FindingThresholdMetrics(th, seg, nm, file_name,
                                 RebindDiceWT(mtr, BoundMaskFn(nm.mask, onEmpty)))

\* self.metrics after the iteration: rebound once line 204 has returned
MetricsAfterOn(nm, mtr, onEmpty) ==
    IF OtsuMaskFn(nm.targets, nm.mask, onEmpty).kind # "value" THEN mtr
    ELSE RebindDiceWT(mtr, BoundMaskFn(nm.mask, onEmpty))

MetricsAfter(data, mtr, onEmpty) ==
    MetricsAfterOn(NonzeroMasking(SampleImg(data), RemoveNoise(ScoreMap(data))), mtr, onEmpty)

FindingThresholdOn(seg, nm, file_name, mtr, onEmpty) ==
    FindingThresholdWith(OtsuMaskFn(nm.targets, nm.mask, onEmpty),
                         seg, nm, file_name, mtr, onEmpty)

\* lines 198-212 on one loaded sample
FindingThresholdSample(data, file_name, mtr, onEmpty) ==
    FindingThresholdOn(SampleSeg(data),
                       NonzeroMasking(SampleImg(data), RemoveNoise(ScoreMap(data))),
                       file_name, mtr, onEmpty)

\* a variant that keeps every sample
SkipSampleNever(metrics_img) == FALSE
\* if metrics_img["AUROC_WT"] == -1: continue (lines 171, 215)
SkipSample(metrics_img) == metrics_img.AUROC_WT = <<-1, 1>>

\* for key in metrics_imgs: metrics_imgs[key].append(metrics_img[key])
AppendAll(lists, metrics_img) ==
    [key \in DOMAIN lists |-> Append(lists[key], metrics_img[key])]

\* writer.writerow(metrics_img) with fieldnames file_name, threshold and the
\* metrics: a key the dict lacks is written as the empty string
CsvRow(metrics_img) ==
    [key \in {"file_name", "threshold", "DICE_WT", "AUROC_WT"} |->
        IF key \in DOMAIN metrics_img THEN metrics_img[key] ELSE ""]

\* {k: (np.mean(v), np.std(v)) for k, v in metrics_imgs.items()}: the pair is
\* kept as the list it is the mean and deviation of
MeanStd(lists) == [key \in DOMAIN lists |-> [mean_std_of |-> lists[key]]]

\* lines 222-229
UpdateMaxMin(d, metrics_img) ==
    LET d1 == IF BigRatLess(d.max_DICE, metrics_img.DICE_WT)
              THEN [d EXCEPT !.max_DICE = metrics_img.DICE_WT,
                             !.max_DICE_file = metrics_img.file_name,
                             !.max_DICE_thresh = metrics_img.threshold]
              ELSE d
    IN  IF BigRatLess(metrics_img.DICE_WT, d1.min_DICE)
        THEN [d1 EXCEPT !.min_DICE = metrics_img.DICE_WT,
                        !.min_DICE_file = metrics_img.file_name,
                        !.min_DICE_thresh = metrics_img.threshold]
        ELSE d1

\* the None of max_DICE_file / min_DICE_file (line 193); the files are 1..N
NoFile == 0

\* line 193
MaxMinInit ==
    [max_DICE |-> BigRatZero, max_DICE_file |-> NoFile, max_DICE_thresh |-> <<0, 1>>,
     min_DICE |-> BigRatOne, min_DICE_file |-> NoFile, min_DICE_thresh |-> <<0, 1>>]

\* The pixels of the sample files: <<img x 4, seg, generated x 4>>
\*   background                       score 0
\*   brain, label 0                   score 2/1020
\*   brain, label 2 (in WT)           score 400/1020
\*   brain, label 1 (in WT, TC, ET)   score 600/1020
PixelKinds ==
    { <<0, 0, 0, 0,          0,   0, 0, 0, 0>>,
      <<100, 100, 100, 100,  0,   102, 100, 100, 100>>,
      <<200, 200, 200, 200,  2,   100, 100, 100, 100>>,
      <<220, 220, 220, 220,  1,   70, 70, 70, 70>> }

\* thresholds handed to using_thresh: 0 and 100/255
UsingThresholds == {Frac(0, 255), Frac(100, 255)}

\* The state once BratsEvaluator is constructed (lines 129-139) the way
\* using_thresh does (lines 282-293: DICE_WT binarizes with pred >= thresh, no
\* mask_fn) or the way finding_threshold does (lines 244-263: the Otsu mask_fn),
\* over a folder of N files of one shape.  The threshold bound in AUROC_WT is
\* the default of AUROC, or 0.
InitBatch ==
    /\ \E np \in Shapes(FolderMaxCells) :
          /\ data_files = [i \in 1..np[1] |-> i]
          /\ data_folder \in [1..np[1] ->
                {Sample(d) : d \in Images(1, np[2], PixelKinds)} \cup {Unreadable}]
    /\ \/ /\ method = "evaluate_images"
          /\ \E th \in UsingThresholds, a \in {0, AurocDefaultThreshold} :
                metrics = [DICE_WT |-> [kind |-> "ge", thresh |-> th], AUROC_WT |-> a]
          /\ self_mask_fn = IdentityMaskFn
          /\ store_data \in BOOLEAN
          /\ cv2_on_empty = None
       \/ /\ method = "finding_threshold"
          /\ \E a \in {0, AurocDefaultThreshold} :
                metrics = [DICE_WT |-> [kind |-> "unbound"], AUROC_WT |-> a]
          /\ self_mask_fn = [kind |-> "unbound"]
          /\ store_data = None
          /\ cv2_on_empty \in Cv2EmptyOutcomes
    /\ file_idx = 0
    /\ metrics_imgs = None /\ csv_rows = None /\ max_min_dict = None
    /\ frame = None /\ raised = None /\ ret = None
    /\ pred = None /\ mask = None /\ mask_fn_out = <<>>
    /\ CallIdle
    /\ DriverIdle
    /\ pc = "constructed"

\* lines 143-153: open metrics.csv and write its header, empty lists
EvaluateImagesBegin ==
    /\ pc = "constructed" /\ method = "evaluate_images"
    /\ csv_rows' = IF store_data THEN <<>> ELSE None
    /\ metrics_imgs' = [key \in {"DICE_WT", "AUROC_WT"} |-> <<>>]
    /\ pc' = "loop"
    /\ UNCHANGED <<call_vars, otsu_vars, driver_vars, data_folder, data_files, metrics, self_mask_fn,
                   method, store_data, file_idx, max_min_dict, frame, raised, ret>>

\* one iteration of the loop of lines 155-178
EvaluateImagesFile ==
    /\ pc = "loop" /\ method = "evaluate_images"
    /\ file_idx < Len(data_files)
    /\ \E file_name \in {data_files[file_idx + 1]} :
         IF ~data_folder[file_name].readable
         THEN /\ raised' \in LoadErrors(file_name)
              /\ pc' = "raised"
              /\ UNCHANGED <<file_idx, metrics_imgs, csv_rows, frame>>
         ELSE \E ev \in {EvaluateImagesSample(data_folder[file_name].data, file_name, metrics)} :
                    IF ev.kind # "value"
                    THEN /\ raised' = ev.error
                         /\ pc' = "raised"
                         /\ UNCHANGED <<file_idx, metrics_imgs, csv_rows, frame>>
                    ELSE /\ frame' = [file_name |-> file_name, pred |-> ev.pred,
                                      image |-> ev.image, metrics_img |-> ev.metrics_img]
                         /\ file_idx' = file_idx + 1
                         /\ IF SkipSample(ev.metrics_img)
                            THEN UNCHANGED <<metrics_imgs, csv_rows>>
                            ELSE /\ csv_rows' = IF store_data
                                                THEN Append(csv_rows, CsvRow(ev.metrics_img))
                                                ELSE csv_rows
                                 /\ metrics_imgs' = AppendAll(metrics_imgs, ev.metrics_img)
                         /\ UNCHANGED <<raised, pc>>
    /\ UNCHANGED <<call_vars, otsu_vars, driver_vars, data_folder, data_files, metrics, self_mask_fn,
                   method, store_data, max_min_dict, ret>>

\* lines 180-184: close the file, reduce the lists, return
EvaluateImagesEnd ==
    /\ pc = "loop" /\ method = "evaluate_images"
    /\ file_idx = Len(data_files)
    /\ ret' = MeanStd(metrics_imgs)
    /\ pc' = "done"
    /\ UNCHANGED <<call_vars, otsu_vars, driver_vars, data_folder, data_files, metrics, self_mask_fn,
                   method, store_data, file_idx, metrics_imgs, csv_rows, max_min_dict,
                   frame, raised>>

\* lines 188-193
FindingThresholdBegin ==
    /\ pc = "constructed" /\ method = "finding_threshold"
    /\ metrics_imgs' = [key \in {"DICE_WT", "AUROC_WT", "threshold"} |-> <<>>]
    /\ max_min_dict' = MaxMinInit
    /\ pc' = "loop"
    /\ UNCHANGED <<call_vars, otsu_vars, driver_vars, data_folder, data_files, metrics, self_mask_fn,
                   method, store_data, file_idx, csv_rows, frame, raised, ret>>

\* one iteration of the loop of lines 194-229
FindingThresholdFile ==
    /\ pc = "loop" /\ method = "finding_threshold"
    /\ file_idx < Len(data_files)
    /\ \E file_name \in {data_files[file_idx + 1]} :
         IF ~data_folder[file_name].readable
         THEN /\ raised' \in LoadErrors(file_name)
              /\ pc' = "raised"
              /\ UNCHANGED <<file_idx, metrics, metrics_imgs, max_min_dict, frame>>
         ELSE \E ev \in {FindingThresholdSample(data_folder[file_name].data, file_name,
                                                metrics, cv2_on_empty)} :
                    IF ev.kind # "value"
                    THEN /\ raised' = ev.error
                         /\ pc' = "raised"
                         /\ metrics' = MetricsAfter(data_folder[file_name].data, metrics,
                                                    cv2_on_empty)
                         /\ UNCHANGED <<file_idx, metrics_imgs, max_min_dict, frame>>
                    ELSE /\ metrics' = MetricsAfter(data_folder[file_name].data, metrics,
                                                    cv2_on_empty)
                         /\ frame' = [file_name |-> file_name, pred |-> ev.pred,
                                      image |-> ev.image, metrics_img |-> ev.metrics_img]
                         /\ file_idx' = file_idx + 1
                         /\ IF SkipSample(ev.metrics_img)
                            THEN UNCHANGED <<metrics_imgs, max_min_dict>>
                            ELSE /\ metrics_imgs' = AppendAll(metrics_imgs, ev.metrics_img)
                                 /\ max_min_dict' = UpdateMaxMin(max_min_dict, ev.metrics_img)
                         /\ UNCHANGED <<raised, pc>>
    /\ UNCHANGED <<call_vars, driver_vars, pred, mask, cv2_on_empty, mask_fn_out, data_folder, data_files,
                   self_mask_fn, method, store_data, csv_rows, ret>>

\* lines 231-232
FindingThresholdEnd ==
    /\ pc = "loop" /\ method = "finding_threshold"
    /\ file_idx = Len(data_files)
    /\ ret' = <<MeanStd(metrics_imgs), max_min_dict>>
    /\ pc' = "done"
    /\ UNCHANGED <<call_vars, otsu_vars, driver_vars, data_folder, data_files, metrics, self_mask_fn,
                   method, store_data, file_idx, metrics_imgs, csv_rows, max_min_dict,
                   frame, raised>>

NextBatch ==
    \/ EvaluateImagesBegin \/ EvaluateImagesFile \/ EvaluateImagesEnd
    \/ FindingThresholdBegin \/ FindingThresholdFile \/ FindingThresholdEnd

SpecBatch == InitBatch /\ [][NextBatch]_vars

\* the pixels of a sample whose label is 1, 2 or 4
WtPixels(data) ==
    Cardinality({rc \in (1..Len(data)) \X (1..Len(data[1])) :
                    SampleSeg(data)[rc[1]][rc[2]] \in {1, 2, 4}})

\* the files whose AUROC_WT is the sentinel: at most metrics.AUROC_WT WT pixels
SentinelFiles ==
    {i \in 1..Len(data_files) :
        data_folder[i].readable /\ WtPixels(data_folder[i].data) <= metrics.AUROC_WT}

RowsOf(file_name) == {k \in 1..Len(csv_rows) : csv_rows[k].file_name = file_name}

\* C5: evaluate_images with store_data=True, once it has returned over a
\* folder of N files of which k give the AUROC sentinel, has written N - k rows:
\* one for every file that is not skipped, none for a skipped file.
C5_RowsPerSample ==
    (pc = "done" /\ method = "evaluate_images" /\ store_data) =>
        /\ Len(csv_rows) = Len(data_files) - Cardinality(SentinelFiles)
        /\ \A i \in 1..Len(data_files) :
              Cardinality(RowsOf(data_files[i])) = IF i \in SentinelFiles THEN 0 ELSE 1

C5_Witness ==
    /\ pc = "done" /\ method = "evaluate_images" /\ store_data
    /\ Len(data_files) = 2 /\ Cardinality(SentinelFiles) = 1 /\ Len(csv_rows) = 1

\* C6: for the sample the use-threshold mode (evaluate_images as using_thresh
\* sets it up) has just processed, if the supplied threshold equals the
\* threshold find-threshold mode selects for that sample, the two modes give the
\* same score map, the same binarized prediction, the same Dice and AUROC and
\* the same skip decision.
C6_ModesAgree ==
    (method = "evaluate_images" /\ file_idx > 0) =>
        \A e \in Cv2EmptyOutcomes :
           \A ft \in {FindingThresholdSample(data_folder[frame.file_name].data,
                                             frame.file_name, metrics, e)} :
              (ft.kind = "value" /\ ft.metrics_img.threshold = metrics.DICE_WT.thresh) =>
                 /\ frame.pred = ft.pred
                 /\ frame.image = ft.image
                 /\ frame.metrics_img.DICE_WT = ft.metrics_img.DICE_WT
                 /\ frame.metrics_img.AUROC_WT = ft.metrics_img.AUROC_WT
                 /\ SkipSample(frame.metrics_img) = SkipSample(ft.metrics_img)

\* the part of C6 the code does keep: the skip decision is the same
C6_SameSkipDecision ==
    (method = "evaluate_images" /\ file_idx > 0) =>
        \A e \in Cv2EmptyOutcomes :
           \A ft \in {FindingThresholdSample(data_folder[frame.file_name].data,
                                             frame.file_name, metrics, e)} :
              (ft.kind = "value") =>
                 SkipSample(frame.metrics_img) = SkipSample(ft.metrics_img)

IsLoadError(e) == "names" \in DOMAIN e

\* C7: when np.load fails on a file after some samples have been accumulated,
\* the failure names the file and the evaluation goes on (to the next file, or
\* to the reduction that returns what was accumulated).
C7_LoadFailureContained ==
    (pc = "raised" /\ IsLoadError(raised) /\ Len(metrics_imgs.AUROC_WT) > 0) =>
        /\ raised.names = {data_files[file_idx + 1]}
        /\ ENABLED NextBatch

\* what finding_threshold computes for file i (its metrics_img holds DICE_WT,
\* AUROC_WT, file_name and threshold)
FindingOf(i) == FindingThresholdSample(data_folder[i].data, i, metrics, cv2_on_empty)

\* the files finding_threshold did not skip
KeptFiles == {i \in 1..Len(data_files) : ~SkipSample(FindingOf(i).metrics_img)}

\* the max_ fields name a kept file of the largest DICE_WT, with its threshold
MaxIsOfKeptFile ==
    /\ \E i \in KeptFiles :
          /\ max_min_dict.max_DICE_file = i
          /\ BigRatEq(max_min_dict.max_DICE, FindingOf(i).metrics_img.DICE_WT)
          /\ max_min_dict.max_DICE_thresh = FindingOf(i).metrics_img.threshold
    /\ \A i \in KeptFiles :
          ~BigRatLess(max_min_dict.max_DICE, FindingOf(i).metrics_img.DICE_WT)

\* the min_ fields name a kept file of the smallest DICE_WT, with its threshold
MinIsOfKeptFile ==
    /\ \E i \in KeptFiles :
          /\ max_min_dict.min_DICE_file = i
          /\ BigRatEq(max_min_dict.min_DICE, FindingOf(i).metrics_img.DICE_WT)
          /\ max_min_dict.min_DICE_thresh = FindingOf(i).metrics_img.threshold
    /\ \A i \in KeptFiles :
          ~BigRatLess(FindingOf(i).metrics_img.DICE_WT, max_min_dict.min_DICE)

\* C11: once finding_threshold has returned over files of which at least one
\* was kept, max_DICE / min_DICE are the largest / smallest DICE_WT of the kept
\* files, max_DICE_file / min_DICE_file name a kept file of that value (never
\* None) and the _thresh fields are the thresholds of those files.
C11_Extrema ==
    (pc = "done" /\ method = "finding_threshold" /\ KeptFiles # {}) =>
        MaxIsOfKeptFile /\ MinIsOfKeptFile

\* what the code does keep of C11: the max_ fields always (a Dice ratio is
\* above the initial 0), the min_ fields when some kept file has a DICE_WT
\* below the initial 1; when every kept DICE_WT is 1 the min_ fields stay as
\* line 193 set them
C11_ExtremaBelowOne ==
    (pc = "done" /\ method = "finding_threshold" /\ KeptFiles # {}) =>
        /\ MaxIsOfKeptFile
        /\ IF \E i \in KeptFiles : BigRatLess(FindingOf(i).metrics_img.DICE_WT, BigRatOne)
           THEN MinIsOfKeptFile
           ELSE /\ max_min_dict.min_DICE_file = NoFile
                /\ max_min_dict.min_DICE = BigRatOne
                /\ max_min_dict.min_DICE_thresh = <<0, 1>>

-----------------------------------------------------------------------------
(* BratsEvaluator.finding_threshold (metrics.py:186-232) over a sequence of *)
(* files whose foreground masks and Otsu thresholds differ from file to     *)
(* file                                                                     *)

\* background, brain label 2, brain label 1 (three of PixelKinds)
FindingPixelKinds ==
    << <<0, 0, 0, 0,          0,   0, 0, 0, 0>>,
       <<200, 200, 200, 200,  2,   100, 100, 100, 100>>,
       <<220, 220, 220, 220,  1,   70, 70, 70, 70>> >>

\* the samples of p pixels, the pixels in the order of FindingPixelKinds (the
\* evaluator treats every pixel position alike)
FindingSamples(p) ==
    {<<[c \in 1..p |-> FindingPixelKinds[f[c]]]>> :
        f \in {g \in [1..p -> DOMAIN FindingPixelKinds] :
                  \A c \in 1..(p - 1) : g[c] <= g[c + 1]}}

\* BratsEvaluator constructed as finding_threshold does (lines 244-263), the
\* AUROC threshold 0 so that samples of a few pixels are kept
InitFinding ==
    /\ \E n \in 1..FindingMaxFiles, p \in 1..FindingMaxPixels :
          /\ data_files = [i \in 1..n |-> i]
          /\ data_folder \in [1..n -> {Sample(d) : d \in FindingSamples(p)}]
    /\ method = "finding_threshold"
    /\ metrics = [DICE_WT |-> [kind |-> "unbound"], AUROC_WT |-> 0]
    /\ self_mask_fn = [kind |-> "unbound"]
    /\ store_data = None
    /\ cv2_on_empty \in Cv2EmptyOutcomes
    /\ file_idx = 0
    /\ metrics_imgs = None /\ csv_rows = None /\ max_min_dict = None
    /\ frame = None /\ raised = None /\ ret = None
    /\ pred = None /\ mask = None /\ mask_fn_out = <<>>
    /\ CallIdle
    /\ DriverIdle
    /\ pc = "constructed"

NextFinding == FindingThresholdBegin \/ FindingThresholdFile \/ FindingThresholdEnd

SpecFinding == InitFinding /\ [][NextFinding]_vars

\* nonzero_masking(img, remove_noise(pred), return_mask=True) of file i
OwnMasking(i) ==
    NonzeroMasking(SampleImg(data_folder[i].data), RemoveNoise(ScoreMap(data_folder[i].data)))

\* the Otsu level of the score map `nm.targets` inside its own mask `nm.mask`
OwnLevel(nm) == OtsuThreshold(MaskedUint8(Select(Flatten(nm.targets), Flatten(nm.mask))))

\* the Dice of the WT mask of file i against the binarized map `image`
DiceOfBinarized(i, image) ==
    DiceCoeff(RegionMask(<<SampleSeg(data_folder[i].data)>>, "WT"), <<image>>,
              IdentityMaskFn, Float64).value

\* the latest file's threshold, binarized map and DICE_WT are those of its own
\* mask and of the Otsu level `t` of its own masked scores
FrameIsOwn(i, nm, t) ==
    /\ frame.file_name = i
    /\ frame.pred = nm.targets
    /\ frame.metrics_img.threshold = Frac(t, 255)
    /\ frame.image = BinarizeGt(nm.targets, t)
    /\ frame.metrics_img.DICE_WT = DiceOfBinarized(i, BinarizeGt(nm.targets, t))
    /\ (pc # "raised") => metrics.DICE_WT = BoundMaskFn(nm.mask, cv2_on_empty)

\* C13: in finding_threshold, after every file, the DICE_WT of the file is
\* that of the prediction binarized with the file's own foreground mask, at
\* the threshold recorded for the file; the DICE_WT entry of self.metrics is
\* bound to the mask of the file, and the mask-less mask_fn bound at
\* construction is never called (no TypeError).
C13_OwnMaskAndThreshold ==
    (method = "finding_threshold") =>
        /\ (file_idx > 0) =>
              FrameIsOwn(file_idx, OwnMasking(file_idx), OwnLevel(OwnMasking(file_idx)))
        /\ (pc = "raised") => raised.kind # "TypeError"

\* two files were kept whose masks and thresholds differ
C13_Witness ==
    /\ method = "finding_threshold" /\ pc = "loop" /\ file_idx = 2
    /\ OwnMasking(1).mask # OwnMasking(2).mask
    /\ Len(metrics_imgs.threshold) = 2
    /\ metrics_imgs.threshold[1] # metrics_imgs.threshold[2]
    /\ metrics.DICE_WT = BoundMaskFn(OwnMasking(2).mask, cv2_on_empty)

-----------------------------------------------------------------------------
(* One call of nonzero_masking(images, targets, return_mask=True)           *)
(* (metrics.py:90-122) on one sample: images is an image of 1..MaxChannels  *)
(* channels, targets a map of the same height and width                     *)

InitNonzero ==
    /\ \E w \in 1..NonzeroMaxPixels, ch \in 1..MaxChannels :
          /\ images \in Images(1, w, [1..ch -> {0, 1}])
          /\ targets \in Images(1, w, {1, 2})
    /\ func = "nonzero_masking"
    /\ region_type = None /\ threshold = None /\ dtype = None
    /\ masks = None /\ func_calls = <<>> /\ result = None
    /\ OtsuIdle
    /\ BatchIdle
    /\ DriverIdle
    /\ pc = "start"

CallNonzeroMasking ==
    /\ pc = "start"
    /\ func = "nonzero_masking"
    /\ result' = NonzeroMasking(images, targets)
    /\ pc' = "done"
    /\ UNCHANGED <<targets, images, region_type, func, threshold, dtype, masks, func_calls,
                   otsu_vars, batch_vars, driver_vars>>

NextNonzero == CallNonzeroMasking

SpecNonzero == InitNonzero /\ [][NextNonzero]_vars

\* images.min(): the smallest value of all channels of all pixels
ImagesMin == SetMin(UNION {Range(px) : px \in Range(Flatten(images))})

\* every channel of the pixel exceeds the global minimum
AllChannelsAbove(r, c) ==
    \A ch \in 1..Len(images[r][c]) : images[r][c][ch] > ImagesMin

\* the returned mask and target are as stated, pixel by pixel
MaskingAsStated ==
    /\ Shape(result.mask) = Shape(targets)
    /\ \A r \in 1..Len(targets) : \A c \in 1..Len(targets[r]) :
          /\ result.mask[r][c] \in {0, 1}
          /\ result.mask[r][c] = 1 <=> AllChannelsAbove(r, c)
          /\ result.targets[r][c] = IF AllChannelsAbove(r, c)
                                    THEN targets[r][c]
                                    ELSE SetMin(Range(Flatten(targets)))

\* C12: nonzero_masking marks a pixel foreground exactly when every channel
\* of images there exceeds the global minimum of images, for any number of
\* channels; the returned target keeps its value at a foreground pixel and is
\* the target's global minimum at a background pixel; the mask has the
\* target's height and width and values 0 and 1.
C12_ForegroundAllChannels ==
    (pc = "done" /\ func = "nonzero_masking") => MaskingAsStated

\* C12 on images of exactly 4 channels, the number line 115 compares with
C12_FourChannels ==
    (pc = "done" /\ func = "nonzero_masking" /\ Len(images[1][1]) = NonzeroChannels)
        => MaskingAsStated

-----------------------------------------------------------------------------
(* The inference driver: main of decoupled_diffusion_anomaly_detection.py,  *)
(* lines 88-139, run by world_size workers.  dist.all_gather and            *)
(* dist.barrier are collectives of torch.distributed: a call returns once   *)
(* every worker has made the matching call.  One batch holds one sample.    *)

Ranks == 0..(world_size - 1)

InitDriver ==
    /\ world_size \in 1..MaxWorkers
    /\ num_batches \in 1..MaxBatches
    /\ wpc = [w \in Ranks |-> "loop"]
    /\ entered = [w \in Ranks |-> 0]
    /\ all_images = [w \in Ranks |-> <<>>]
    /\ saved = <<>>
    /\ at_barrier = {}
    /\ CallIdle /\ OtsuIdle /\ BatchIdle
    /\ pc = "main"

\* lines 89-119: sample one batch and call dist.all_gather with save_sample
SampleAndGather(w) ==
    /\ wpc[w] = "loop"
    /\ entered[w] < num_batches
    /\ entered' = [entered EXCEPT ![w] = @ + 1]
    /\ wpc' = [wpc EXCEPT ![w] = "all_gather"]
    /\ UNCHANGED <<call_vars, otsu_vars, batch_vars, pc,
                 world_size, num_batches, all_images, saved, at_barrier>>

\* a variant in which all_gather returns without waiting for the others
AllGatherCompleteNoWait(w) == TRUE
\* dist.all_gather returns to worker w: every worker has made this call
AllGatherComplete(w) == \A v \in Ranks : entered[v] >= entered[w]

\* line 120: all_images.extend(the sample of every rank, in rank order)
AllGatherReturn(w) ==
    /\ wpc[w] = "all_gather"
    /\ AllGatherComplete(w)
    /\ all_images' = [all_images EXCEPT ![w] =
                         @ \o [k \in 1..world_size |->
                                  <<k - 1, IF entered[k - 1] >= entered[w]
                                           THEN entered[w] ELSE 0>>]]
    /\ wpc' = [wpc EXCEPT ![w] = "loop"]
    /\ UNCHANGED <<call_vars, otsu_vars, batch_vars, pc,
                 world_size, num_batches, entered, saved, at_barrier>>

\* lines 122-129: the loop is over; rank 0 goes on to save, the others to the barrier
LoopEnd(w) ==
    /\ wpc[w] = "loop"
    /\ entered[w] = num_batches
    /\ wpc' = [wpc EXCEPT ![w] = IF w = 0 THEN "save" ELSE "before_barrier"]
    /\ UNCHANGED <<call_vars, otsu_vars, batch_vars, pc,
                 world_size, num_batches, entered, all_images, saved, at_barrier>>

\* lines 131-136 on rank 0: np.save of the next sample of arr
SaveSample ==
    /\ wpc[0] = "save"
    /\ Len(saved) < Len(all_images[0])
    /\ saved' = Append(saved, all_images[0][Len(saved) + 1])
    /\ UNCHANGED <<call_vars, otsu_vars, batch_vars, pc,
                 world_size, num_batches, wpc, entered, all_images, at_barrier>>

SaveEnd ==
    /\ wpc[0] = "save"
    /\ Len(saved) = Len(all_images[0])
    /\ wpc' = [wpc EXCEPT ![0] = "before_barrier"]
    /\ UNCHANGED <<call_vars, otsu_vars, batch_vars, pc,
                 world_size, num_batches, entered, all_images, saved, at_barrier>>

\* line 138: the worker calls dist.barrier()
BarrierEnter(w) ==
    /\ wpc[w] = "before_barrier"
    /\ at_barrier' = at_barrier \cup {w}
    /\ wpc' = [wpc EXCEPT ![w] = "barrier"]
    /\ UNCHANGED <<call_vars, otsu_vars, batch_vars, pc,
                 world_size, num_batches, entered, all_images, saved>>

\* dist.barrier() returns, line 139 logs "anomaly detection complete"
BarrierLeave(w) ==
    /\ wpc[w] = "barrier"
    /\ at_barrier = Ranks
    /\ wpc' = [wpc EXCEPT ![w] = "done"]
    /\ UNCHANGED <<call_vars, otsu_vars, batch_vars, pc,
                 world_size, num_batches, entered, all_images, saved, at_barrier>>

NextDriver ==
    \/ \E w \in Ranks : SampleAndGather(w)
    \/ \E w \in Ranks : AllGatherReturn(w)
    \/ \E w \in Ranks : LoopEnd(w)
    \/ SaveSample
    \/ SaveEnd
    \/ \E w \in Ranks : BarrierEnter(w)
    \/ \E w \in Ranks : BarrierLeave(w)

SpecDriver == InitDriver /\ [][NextDriver]_vars

\* C8: no sample file is written while some worker has not yet reached the
\* barrier.
C8_SaveAfterBarrier == (saved # <<>>) => at_barrier = Ranks

\* C8 as amended: the join point before the save is the last all_gather (a
\* file is written only once every worker has entered all its all_gather
\* calls, and rank 0 holds every worker's samples), and the barrier comes after
\* the save: no worker leaves it before rank 0 has written every sample.
C8_SaveAfterGatherBarrierAfterSave ==
    /\ (saved # <<>>) =>
          /\ \A w \in Ranks : entered[w] = num_batches
          /\ \A k \in 1..Len(saved) : saved[k][2] >= 1
    /\ (\E w \in Ranks : wpc[w] = "done") => Len(saved) = world_size * num_batches

C8_Witness ==
    /\ world_size = 2
    /\ Len(saved) = world_size * num_batches
    /\ wpc[1] = "done"

=============================================================================
